---- MODULE Spec2Model ----
(***************************************************************************)
(* A model of plottingtools.plot.bars (src/plottingtools/plot.py).  One    *)
(* behaviour is one call of bars(): Init fixes the arguments, and the      *)
(* actions are the consecutive blocks of the function body.  The figure    *)
(* `fig' records every call made into matplotlib, so that the order of     *)
(* errors and rendering side effects can be observed.                      *)
(*                                                                         *)
(* Numbers are exact rationals [n, d] (d > 0, lowest terms).  The data are  *)
(* integers and the divisors powers of two, so that the float64 quotients  *)
(* and products of numpy are these same numbers; the literals 0.05 and 0.1 *)
(* stand for 1/20 and 1/10.                                                *)
(***************************************************************************)
EXTENDS Integers, Sequences, FiniteSets, TLC

\* ---------------------------------------------------------------- bounds
MaxLen == 3
MaxVal == 3

\* ------------------------------------------------------------- rationals
RECURSIVE GCD(_, _)
GCD(a, b) == IF b = 0 THEN a ELSE GCD(b, a % b)

Abs(x) == IF x < 0 THEN -x ELSE x

Rat(n, d) ==
    LET g == GCD(Abs(n), Abs(d))
        s == IF d < 0 THEN -1 ELSE 1
    IN  [n |-> (s * n) \div g, d |-> (s * d) \div g]

RInt(i) == [n |-> i, d |-> 1]
RAdd(a, b) == Rat(a.n * b.d + b.n * a.d, a.d * b.d)
RSub(a, b) == Rat(a.n * b.d - b.n * a.d, a.d * b.d)
RMul(a, b) == Rat(a.n * b.n, a.d * b.d)
RDiv(a, b) == Rat(a.n * b.d, a.d * b.n)
RLeq(a, b) == a.n * b.d <= b.n * a.d

\* max(data) / data.max() of a non-empty sequence of numbers
RMaxSeq(s) == CHOOSE x \in {s[i] : i \in 1..Len(s)} :
                  \A j \in 1..Len(s) : RLeq(s[j], x)

\* min(offsets), max(offsets) of a non-empty list of ints
MinOf(s) == CHOOSE x \in {s[i] : i \in 1..Len(s)} : \A j \in 1..Len(s) : x <= s[j]
MaxOf(s) == CHOOSE x \in {s[i] : i \in 1..Len(s)} : \A j \in 1..Len(s) : s[j] <= x

\* ------------------------------------------------- program constants
\* defaults of the signature (bar_width=0.75, max_val_pad=0.1)
bar_width == Rat(3, 4)
max_val_pad == Rat(1, 10)
\* y_offset = 0.05
BarLabelPad == Rat(1, 20)
PercentFactor == 100
ScaledMax == 1
RotateAbove == 7
RotatedAngle == 45

\* --------------------------------------------------------------- numpy
\* list(range(n))
Range0(n) == [i \in 1..n |-> i - 1]

\* a faulty a[order]: the index array is read back to front
IndexBackwards(a, order) ==
    [i \in 1..Len(order) |-> a[order[Len(order) + 1 - i] + 1]]

\* a[order] for a 1-d array a and an integer index array order (0-based);
\* IndexOk is false where numpy raises IndexError
IndexOk(a, order) == /\ Len(order) > 0
                     /\ \A i \in 1..Len(order) : order[i] < Len(a)

Index(a, order) == [i \in 1..Len(order) |-> a[order[i] + 1]]

\* order[::-1]
Reversed(s) == [i \in 1..Len(s) |-> s[Len(s) + 1 - i]]

Perms(n) == {p \in [1..n -> 0..(n - 1)] : \A i, j \in 1..n : p[i] = p[j] => i = j}

\* a faulty argsort: the comparison is turned around
argsortDescending(d) ==
    {p \in Perms(Len(d)) :
        \A i \in 1..(Len(d) - 1) : RLeq(d[p[i + 1] + 1], d[p[i] + 1])}

\* np.argsort(data), kind='quicksort': an index array that sorts data; the
\* order among equal values is not specified by numpy, so every sorting
\* permutation is a possible outcome.
argsort(d) == {p \in Perms(Len(d)) :
                 \A i \in 1..(Len(d) - 1) : RLeq(d[p[i] + 1], d[p[i + 1] + 1])}

\* shapes (m,) and (n,) broadcast together
Broadcastable(m, n) == m = n \/ m = 1 \/ n = 1
BLen(m, n) == IF m = 1 THEN n ELSE m
BAt(s, i) == IF Len(s) = 1 THEN s[1] ELSE s[i]

\* data / np.array(scale_by)
Divide(d, scale_by) ==
    IF scale_by.kind = "scalar"
    THEN [i \in 1..Len(d) |-> RDiv(d[i], RInt(scale_by.vals[1]))]
    ELSE [i \in 1..BLen(Len(d), Len(scale_by.vals)) |->
              RDiv(BAt(d, i), RInt(BAt(scale_by.vals, i)))]
DivideOk(d, scale_by) ==
    scale_by.kind = "scalar" \/ Broadcastable(Len(d), Len(scale_by.vals))

\* data *= 100
TimesHundred(d) == [i \in 1..Len(d) |-> RMul(d[i], RInt(PercentFactor))]

\* ---------------------------------------------------- util (not in src/)
\* util.check_parameter(value, name, valid_options): accepts the values that
\* valid_options lists for the option.
check_parameter_sort_by(sort_by) ==
    \/ sort_by.kind = "none"
    \/ sort_by.kind = "seq"
    \/ sort_by.kind = "str" /\ sort_by.str \in {"ascending", "descending"}
check_parameter_bar_label_format(f) == f \in {"none", "function"}

\* ----------------------------------------------------------------- state
VARIABLES
    args,           \* the arguments of the call (never changed)
    pc,             \* the block of bars() to run next; "raised" / "done"
    error,          \* the exception that ended the call: [type, line]
    data,           \* np.array(data), as rebound by the function
    labels,         \* np.array(labels): [ndim, items]
    order,          \* the index array used at lines 101-102
    bottom_labels,  \* [set, items]: None or the list built at line 110
    label_rotation, \* [bound, val]
    max_val,        \* the reference maximum
    offsets,        \* list(range(len(labels)))
    ylim,           \* [kind, lo, hi]
    y_offset,       \* [bound, val]: local variable of lines 171-175
    fig             \* what has been drawn so far

vars == <<args, pc, error, data, labels, order, bottom_labels, label_rotation,
          max_val, offsets, ylim, y_offset, fig>>

NoError == [type |-> "none", line |-> 0]
Unbound == [bound |-> FALSE, val |-> RInt(0)]
Bound(v) == [bound |-> TRUE, val |-> v]
NoLim == [kind |-> "none", lo |-> RInt(0), hi |-> RInt(0)]
Lim(lo, hi) == [kind |-> "pair", lo |-> lo, hi |-> hi]

\* np.array(None) is a 0-d object array; np.array(list) is 1-d
Array0d == [ndim |-> 0, items |-> << >>]
Array1d(s) == [ndim |-> 1, items |-> s]

NoFigure == [created |-> FALSE, bars |-> << >>, lines |-> << >>, texts |-> << >>,
             ylim |-> NoLim, xlim |-> NoLim, xticks |-> << >>,
             xticklabels |-> << >>, rotation |-> 0, legend |-> FALSE,
             title |-> FALSE, saved |-> FALSE, shown |-> FALSE]

\* ---------------------------------------------------------------- inputs
SortNone == [kind |-> "none", str |-> "", seq |-> << >>]
SortByStr(s) == [kind |-> "str", str |-> s, seq |-> << >>]
SortBySeq(q) == [kind |-> "seq", str |-> "", seq |-> q]
ScaleNone == [kind |-> "none", vals |-> << >>]
ScaleScalar(v) == [kind |-> "scalar", vals |-> <<v>>]
ScaleSeq(q) == [kind |-> "seq", vals |-> q]

LabelNames(n) == [i \in 1..n |-> ToString(i)]

DataSet == UNION {[1..n -> 1..MaxVal] : n \in 1..MaxLen}

\* explicit index sequences for n values: the permutations, the permutations
\* cut by one index, the permutations with their first index repeated at the
\* end, and one sequence holding an index out of range
ExplicitOrders(n) ==
    Perms(n)
    \cup {SubSeq(p, 1, n - 1) : p \in IF n > 1 THEN Perms(n) ELSE {}}
    \cup {Append(p, p[1]) : p \in Perms(n)}
    \cup {<<n>>}

Call(d, l, sort_by, scale_by, sbl, smv, sbar, fmt, multi, pct, yl) ==
    [data |-> d, labels |-> l, sort_by |-> sort_by, scale_by |-> scale_by,
     show_bottom_labels |-> sbl, show_max_val |-> smv, show_bar_labels |-> sbar,
     bar_label_format |-> fmt, multicolor |-> multi, show_as_percent |-> pct,
     ylim |-> yl, show_legend |-> FALSE, save |-> FALSE, show |-> TRUE]

NamedOrNone == {SortNone, SortByStr("ascending"), SortByStr("descending")}

FullLabels(d) == Array1d(LabelNames(Len(d)))

Default(d) == Call(d, FullLabels(d), SortNone, ScaleNone, TRUE, FALSE, FALSE,
                   "none", TRUE, FALSE, NoLim)

\* calls that vary the ordering
OrderCalls(d) ==
    {[Default(d) EXCEPT !.sort_by = s] :
        s \in NamedOrNone \cup {SortByStr("random")}
              \cup {SortBySeq(q) : q \in ExplicitOrders(Len(d))}}

\* calls whose labels are absent, one short or one long
LabelCalls(d) ==
    {[Default(d) EXCEPT !.labels = l, !.sort_by = s, !.show_bottom_labels = sbl,
                        !.multicolor = multi] :
        l \in {Array0d, Array1d(LabelNames(Len(d) - 1)),
               Array1d(LabelNames(Len(d) + 1))},
        s \in NamedOrNone \cup {SortBySeq(Range0(Len(d)))},
        sbl \in BOOLEAN, multi \in BOOLEAN}

\* calls that vary the scale factor
ScaleCalls(d) ==
    {[Default(d) EXCEPT !.sort_by = s, !.scale_by = sc, !.show_as_percent = pct] :
        s \in NamedOrNone,
        sc \in {ScaleScalar(2)}
               \cup {ScaleSeq(q) : q \in [1..Len(d) -> {1, 2}]}
               \cup {ScaleSeq(<<2>>), ScaleSeq([i \in 1..(Len(d) + 1) |-> 2])},
        pct \in BOOLEAN}

\* calls that draw the line at the maximum value
MaxValCalls(d) ==
    {[Default(d) EXCEPT !.show_max_val = TRUE, !.scale_by = sc, !.sort_by = s,
                        !.show_as_percent = pct, !.multicolor = multi] :
        sc \in {ScaleNone, ScaleScalar(2)}, s \in {SortNone, SortByStr("descending")},
        pct \in BOOLEAN, multi \in BOOLEAN}

\* calls that write the bar labels
BarLabelCalls(d) ==
    {[Default(d) EXCEPT !.show_bar_labels = TRUE, !.scale_by = sc,
                        !.bar_label_format = fmt, !.show_as_percent = pct,
                        !.show_bottom_labels = sbl] :
        sc \in {ScaleNone, ScaleScalar(2)}, fmt \in {"none", "function", "other"},
        pct \in BOOLEAN, sbl \in BOOLEAN}

\* calls that give y limits
YLimCalls(d) ==
    {[Default(d) EXCEPT !.ylim = Lim(RInt(0), Rat(1, 2)), !.scale_by = sc,
                        !.show_as_percent = pct] :
        sc \in {ScaleNone, ScaleScalar(2)}, pct \in BOOLEAN}

Calls(d) == OrderCalls(d) \cup LabelCalls(d) \cup ScaleCalls(d)
            \cup MaxValCalls(d) \cup BarLabelCalls(d) \cup YLimCalls(d)

\* lines 85-86: data = np.array(data); labels = np.array(labels)
Init ==
    /\ \E d \in DataSet : args \in Calls(d)
    /\ pc = "reorder"
    /\ error = NoError
    /\ data = [i \in 1..Len(args.data) |-> RInt(args.data[i])]
    /\ labels = args.labels
    /\ order = << >>
    /\ bottom_labels = [set |-> FALSE, items |-> << >>]
    /\ label_rotation = [bound |-> FALSE, val |-> 0]
    /\ max_val = Unbound
    /\ offsets = << >>
    /\ ylim = args.ylim
    /\ y_offset = Unbound
    /\ fig = NoFigure

Raise(type, line) ==
    /\ pc' = "raised"
    /\ error' = [type |-> type, line |-> line]

\* ------------------------------------------------------------ the blocks
\* lines 95-100: the index array for a sort_by that is not None
OrderOf(sort_by, d) ==
    IF sort_by.kind = "str"
    THEN IF sort_by.str = "descending"
         THEN {Reversed(p) : p \in argsort(d)}
         ELSE argsort(d)
    ELSE {sort_by.seq}

\* lines 88-102: check sort_by, then reorder data and labels (debug=False;
\* the strings passed are lower case, so sort_by.lower() is sort_by)
Reorder ==
    /\ pc = "reorder"
    /\ IF ~check_parameter_sort_by(args.sort_by)
       THEN /\ Raise("ConfigurationError", 89)
            /\ UNCHANGED <<data, labels, order>>
       ELSE IF args.sort_by.kind = "none"
       THEN /\ pc' = "labels"
            /\ UNCHANGED <<error, data, labels, order>>
       ELSE \E o \in OrderOf(args.sort_by, data) :
            /\ order' = o
            /\ IF ~IndexOk(data, o)
               THEN /\ Raise("IndexError", 101)
                    /\ UNCHANGED <<data, labels>>
               ELSE /\ data' = Index(data, o)
                    /\ IF labels.ndim = 0 \/ ~IndexOk(labels.items, o)
                       THEN /\ Raise("IndexError", 102)
                            /\ UNCHANGED labels
                       ELSE /\ labels' = Array1d(Index(labels.items, o))
                            /\ pc' = "labels"
                            /\ UNCHANGED error
    /\ UNCHANGED <<args, bottom_labels, label_rotation, max_val, offsets, ylim,
                   y_offset, fig>>

\* line 110: labels[i] + '\nN = {}'.format(data[i]), kept as its two parts
BottomLabel(label, count) == [label |-> label, n |-> count]

\* lines 114-117
Rotation(n) == IF n > RotateAbove THEN RotatedAngle ELSE 0

\* lines 104-119: the bottom labels.  labels is an ndarray here, so the
\* check of line 105 accepts it (valid_options lists np.ndarray) and
\* `labels is not None' is always true.
PrepareLabels ==
    /\ pc = "labels"
    /\ IF args.show_bottom_labels
       THEN IF labels.ndim = 0
            THEN /\ Raise("TypeError", 107)
                 /\ UNCHANGED <<bottom_labels, label_rotation>>
            ELSE IF Len(labels.items) # Len(data)
            THEN /\ Raise("ValueError", 108)
                 /\ UNCHANGED <<bottom_labels, label_rotation>>
            ELSE /\ bottom_labels' =
                      [set |-> TRUE,
                       items |-> [i \in 1..Len(labels.items) |->
                                    BottomLabel(labels.items[i], data[i])]]
                 /\ label_rotation' = [bound |-> TRUE,
                                       val |-> Rotation(Len(labels.items))]
                 /\ pc' = "normalize"
                 /\ UNCHANGED error
       ELSE /\ bottom_labels' = [set |-> FALSE, items |-> << >>]
            /\ pc' = "normalize"
            /\ UNCHANGED <<error, label_rotation>>
    /\ UNCHANGED <<args, data, labels, order, max_val, offsets, ylim, y_offset, fig>>

\* lines 121-134: scale the data, set max_val, lay out the offsets
Normalize ==
    /\ pc = "normalize"
    /\ IF args.scale_by.kind # "none" /\ ~DivideOk(data, args.scale_by)
       THEN /\ Raise("ValueError", 123)
            /\ UNCHANGED <<data, max_val, offsets>>
       ELSE /\ data' = IF args.scale_by.kind # "none"
                       THEN Divide(data, args.scale_by) ELSE data
            /\ max_val' = IF args.scale_by.kind # "none"
                          THEN Bound(RInt(ScaledMax)) ELSE Bound(RMaxSeq(data))
            /\ IF labels.ndim = 0
               THEN /\ Raise("TypeError", 134)
                    /\ UNCHANGED offsets
               ELSE /\ offsets' = Range0(Len(labels.items))
                    /\ pc' = "percent"
                    /\ UNCHANGED error
    /\ UNCHANGED <<args, labels, order, bottom_labels, label_rotation, ylim,
                   y_offset, fig>>

\* a faulty line 140: the limits are left as given
PercentLimUnchanged(yl) == yl

\* line 140
PercentLim(yl) ==
    IF yl.kind = "none" THEN yl
    ELSE Lim(RMul(yl.lo, RInt(PercentFactor)), RMul(yl.hi, RInt(PercentFactor)))

\* lines 136-140: percent display
Percent ==
    /\ pc = "percent"
    /\ data' = IF args.show_as_percent THEN TimesHundred(data) ELSE data
    /\ ylim' = IF args.show_as_percent THEN PercentLim(ylim) ELSE ylim
    /\ pc' = "draw"
    /\ UNCHANGED <<args, error, labels, order, bottom_labels, label_rotation,
                   max_val, offsets, y_offset, fig>>

Min2(a, b) == IF a < b THEN a ELSE b

\* lines 142-150: create the figure and draw the bars
Draw ==
    /\ pc = "draw"
    /\ IF args.multicolor
       THEN LET n == Len(labels.items)
                k == Min2(n, Len(data))
            IN  /\ fig' = [fig EXCEPT !.created = TRUE,
                             !.bars = [i \in 1..k |->
                                         [x |-> offsets[i], height |-> data[i]]]]
                /\ IF n > Len(data)
                   THEN Raise("IndexError", 148)
                   ELSE pc' = "maxline" /\ UNCHANGED error
       ELSE IF ~Broadcastable(Len(offsets), Len(data))
            THEN /\ fig' = [fig EXCEPT !.created = TRUE]
                 /\ Raise("ValueError", 150)
            ELSE /\ fig' = [fig EXCEPT !.created = TRUE,
                              !.bars = [i \in 1..BLen(Len(offsets), Len(data)) |->
                                          [x |-> BAt(offsets, i),
                                           height |-> BAt(data, i)]]]
                 /\ pc' = "maxline"
                 /\ UNCHANGED error
    /\ UNCHANGED <<args, data, labels, order, bottom_labels, label_rotation,
                   max_val, offsets, ylim, y_offset>>

\* a faulty line 154: percent display is not looked at
ReferenceMaxIgnoringPercent(pct, mv) == mv

\* line 154
ReferenceMax(pct, mv) == IF pct THEN RInt(PercentFactor) ELSE mv

\* lines 152-158: the line at the maximum value
MaxValLine ==
    /\ pc = "maxline"
    /\ IF args.show_max_val
       THEN /\ max_val' = Bound(ReferenceMax(args.show_as_percent, max_val.val))
            /\ IF Len(offsets) = 0
               THEN /\ Raise("ValueError", 155)
                    /\ UNCHANGED fig
               ELSE /\ fig' = [fig EXCEPT !.lines = Append(@,
                                 [x0 |-> MinOf(offsets) - 1,
                                  x1 |-> MaxOf(offsets) + 1,
                                  y |-> max_val'.val])]
                    /\ pc' = "barlabels"
                    /\ UNCHANGED error
       ELSE /\ pc' = "barlabels"
            /\ UNCHANGED <<error, max_val, fig>>
    /\ UNCHANGED <<args, data, labels, order, bottom_labels, label_rotation,
                   offsets, ylim, y_offset>>

\* lines 165-169: fmt(x), kept as the function used and its argument
Fmt(f, x) == [fmt |-> IF f = "none" THEN "default" ELSE "function", arg |-> x]

\* lines 160-175: the text on top of each bar
BarLabels ==
    /\ pc = "barlabels"
    /\ IF ~args.show_bar_labels
       THEN /\ pc' = "finish"
            /\ UNCHANGED <<error, y_offset, fig>>
       ELSE IF ~check_parameter_bar_label_format(args.bar_label_format)
       THEN /\ Raise("ConfigurationError", 163)
            /\ UNCHANGED <<y_offset, fig>>
       ELSE /\ y_offset' = IF args.scale_by.kind # "none"
                           THEN Bound(BarLabelPad) ELSE y_offset
            /\ IF Len(labels.items) = 0
               THEN /\ pc' = "finish"
                    /\ UNCHANGED <<error, fig>>
               ELSE IF ~y_offset'.bound
               THEN /\ Raise("UnboundLocalError", 175)
                    /\ UNCHANGED fig
               ELSE LET n == Len(labels.items)
                        k == Min2(n, Len(data))
                    IN  /\ fig' = [fig EXCEPT !.texts =
                                     [i \in 1..k |->
                                        [x |-> offsets[i],
                                         y |-> RAdd(data[i], y_offset'.val),
                                         s |-> Fmt(args.bar_label_format, data[i])]]]
                        /\ IF n > Len(data)
                           THEN Raise("IndexError", 175)
                           ELSE pc' = "finish" /\ UNCHANGED error
    /\ UNCHANGED <<args, data, labels, order, bottom_labels, label_rotation,
                   max_val, offsets, ylim>>

\* line 179
AutoLim(d, pad) == Lim(RInt(0), RAdd(RMaxSeq(d), RMul(RMaxSeq(d), pad)))

\* line 183
XLim(n, w) == Lim(RSub(RInt(0), w), RAdd(RInt(n - 1), w))

\* lines 177-192: limits, ticks and tick labels
Limits(f) ==
    [f EXCEPT !.ylim = ylim',
              !.xlim = XLim(Len(data), bar_width),
              !.xticks = offsets]

\* lines 194-209: legend, title, save and show
Finished(f) ==
    [f EXCEPT !.legend = args.show_legend, !.title = TRUE,
              !.saved = args.save, !.shown = args.show]

\* lines 177-209 when the tick labels are accepted
Finish ==
    /\ pc = "finish"
    /\ ylim' = IF ylim.kind = "none" THEN AutoLim(data, max_val_pad) ELSE ylim
    /\ fig' = Finished(
         [Limits(fig) EXCEPT
            !.xticklabels = IF bottom_labels.set THEN bottom_labels.items
                            ELSE [i \in 1..Len(data) |-> BottomLabel("", RInt(0))],
            !.rotation = IF bottom_labels.set THEN label_rotation.val ELSE 0])
    /\ pc' = "done"
    /\ UNCHANGED <<args, error, data, labels, order, bottom_labels,
                   label_rotation, max_val, offsets, y_offset>>

\* lines 177-192 when matplotlib rejects tick labels whose number differs from
\* the number of ticks set at line 184 (matplotlib 3.3 and later raise, earlier
\* releases do not: both outcomes are kept)
FinishTickLabelError ==
    /\ pc = "finish"
    /\ ~bottom_labels.set
    /\ Len(data) # Len(offsets)
    /\ ylim' = IF ylim.kind = "none" THEN AutoLim(data, max_val_pad) ELSE ylim
    /\ fig' = Limits(fig)
    /\ Raise("ValueError", 192)
    /\ UNCHANGED <<args, data, labels, order, bottom_labels, label_rotation,
                   max_val, offsets, y_offset>>

Next ==
    \/ Reorder
    \/ PrepareLabels
    \/ Normalize
    \/ Percent
    \/ Draw
    \/ MaxValLine
    \/ BarLabels
    \/ Finish
    \/ FinishTickLabelError

Spec == Init /\ [][Next]_vars

\* ------------------------------------------------------------ properties
N == Len(args.data)
Values == [i \in 1..N |-> RInt(args.data[i])]
LabelsGiven == args.labels.ndim = 1
EqualLength == LabelsGiven /\ Len(args.labels.items) = N
IsPermutation(q) == q \in Perms(N)
NoTies(d) == \A i, j \in 1..Len(d) : d[i] = d[j] => i = j

\* every label sits at the position of the value it was given with
LabelsFollowValues ==
    /\ labels.ndim = 1
    /\ Len(labels.items) = Len(data)
    /\ \A i \in 1..Len(data) : \A k \in 1..N :
          labels.items[i] = args.labels.items[k] => data[i] = Values[k]

\* C1: with equal-length values and labels and an explicit sort_by that is a
\* permutation p of 0..N-1, the reordering step does not fail and leaves
\* values'[i] = values[p[i]] and labels'[i] = labels[p[i]] for every i, so
\* each label occurs once and stays with its own value.
C1_ExplicitPermutation ==
    (args.sort_by.kind = "seq" /\ IsPermutation(args.sort_by.seq) /\ EqualLength) =>
        /\ ~(pc = "raised" /\ error.line <= 102)
        /\ pc = "labels" =>
             /\ Len(data) = N
             /\ \A i \in 1..N :
                   /\ data[i] = Values[args.sort_by.seq[i] + 1]
                   /\ labels.items[i] = args.labels.items[args.sort_by.seq[i] + 1]
             /\ \A k \in 1..N :
                   Cardinality({i \in 1..N :
                       labels.items[i] = args.labels.items[k]}) = 1
             /\ LabelsFollowValues

C1_Witness ==
    /\ pc = "labels"
    /\ args.data = <<3, 1, 2>>
    /\ EqualLength
    /\ args.sort_by = SortBySeq(<<2, 0, 1>>)
    /\ data = <<RInt(2), RInt(3), RInt(1)>>
    /\ labels.items = <<"3", "1", "2">>

\* the increasing arrangement of values without ties
AscendingOf(d) ==
    CHOOSE q \in [1..Len(d) -> {d[i] : i \in 1..Len(d)}] :
        \A i \in 1..(Len(d) - 1) : q[i] < q[i + 1]

\* C2: sort_by='ascending' leaves the values non-decreasing with their labels
\* carried along; sort_by='descending' leaves, for values without ties, the
\* reverse of the ascending sequence; data=[3,1,2] ascending gives [1,2,3].
C2_NamedPolicy ==
    (args.sort_by.kind = "str" /\ check_parameter_sort_by(args.sort_by)
       /\ EqualLength) =>
        /\ ~(pc = "raised" /\ error.line <= 102)
        /\ pc = "labels" =>
             /\ LabelsFollowValues
             /\ {labels.items[i] : i \in 1..Len(data)}
                  = {args.labels.items[k] : k \in 1..N}
             /\ args.sort_by.str = "ascending" =>
                  /\ \A i \in 1..(Len(data) - 1) : RLeq(data[i], data[i + 1])
                  /\ args.data = <<3, 1, 2>> => data = <<RInt(1), RInt(2), RInt(3)>>
             /\ (args.sort_by.str = "descending" /\ NoTies(args.data)) =>
                  data = Reversed([i \in 1..N |-> RInt(AscendingOf(args.data)[i])])

C2_Witness ==
    /\ pc = "labels"
    /\ args.data = <<3, 1, 2>>
    /\ EqualLength
    /\ args.sort_by = SortByStr("descending")
    /\ data = <<RInt(3), RInt(2), RInt(1)>>
    /\ labels.items = <<"1", "3", "2">>

\* C3 (as claimed): with show_bottom_labels and supplied labels whose length
\* differs from the data's, no chart is ever drawn, whatever sort_by is.
C3_MismatchNeverDrawn ==
    (args.show_bottom_labels /\ LabelsGiven /\ Len(args.labels.items) # N) =>
        ~fig.created

\* the errors that an option value causes: sort_by (89), labels (108),
\* scale_by (123), bar_label_format (163), the bar-label pad (175)
OptionError ==
    /\ pc = "raised"
    /\ \/ error.line \in {89, 108, 123, 163}
       \/ error.line = 175 /\ error.type = "UnboundLocalError"

\* C4 (as claimed): an error caused by an option value is raised before the
\* figure is created and before anything is drawn.
C4_ErrorsBeforeRendering ==
    OptionError => (~fig.created /\ fig.bars = << >> /\ fig.lines = << >>
                    /\ fig.texts = << >>)

\* C5 (as claimed): an explicit sort_by whose length differs from the number
\* of values ends in an error; no chart with dropped or repeated bars is drawn.
C5_WrongLengthRejected ==
    (args.sort_by.kind = "seq" /\ Len(args.sort_by.seq) # N) =>
        (~fig.created /\ pc # "done")

\* the values as reordered, before any rescaling
ReorderedValues ==
    IF args.sort_by.kind = "none" THEN Values ELSE Index(Values, order)

\* C6: with show_max_val, one reference line is drawn, at 100 under
\* show_as_percent, else at 1 when scale_by is given, else at the maximum of
\* the reordered un-rescaled values; it runs from min(offsets)-1 to
\* max(offsets)+1.  Without show_max_val no line is drawn.
C6_ReferenceLine ==
    /\ ~args.show_max_val => fig.lines = << >>
    /\ (args.show_max_val /\ pc \in {"barlabels", "finish", "done"}) =>
          /\ Len(fig.lines) = 1
          /\ fig.lines[1].y =
                IF args.show_as_percent THEN RInt(100)
                ELSE IF args.scale_by.kind # "none" THEN RInt(1)
                ELSE RMaxSeq(ReorderedValues)
          /\ fig.lines[1].x0 = MinOf(offsets) - 1
          /\ fig.lines[1].x1 = MaxOf(offsets) + 1
          /\ fig.lines[1].x0 = -1
          /\ fig.lines[1].x1 = Len(offsets)

C6_Witness ==
    /\ pc = "done"
    /\ args.show_max_val
    /\ args.data = <<1, 1>>
    /\ args.scale_by = ScaleScalar(2)
    /\ ~args.show_as_percent
    /\ data = <<Rat(1, 2), Rat(1, 2)>>
    /\ fig.lines = <<[x0 |-> -1, x1 |-> 2, y |-> RInt(1)]>>

\* C7: the percent step multiplies every value, as it stands after the scale
\* division, by 100 and turns a given ylim (lo, hi) into (100*lo, 100*hi),
\* each whether or not the other applies; without show_as_percent it changes
\* neither.
C7_PercentStep ==
    [][pc = "percent" =>
         IF args.show_as_percent
         THEN /\ Len(data') = Len(data)
              /\ \A i \in 1..Len(data) : data'[i] = RMul(RInt(100), data[i])
              /\ ylim.kind = "pair" =>
                    /\ ylim'.kind = "pair"
                    /\ ylim'.lo = RMul(RInt(100), ylim.lo)
                    /\ ylim'.hi = RMul(RInt(100), ylim.hi)
              /\ ylim.kind = "none" => ylim'.kind = "none"
         ELSE data' = data /\ ylim' = ylim]_vars

C7_Witness ==
    /\ pc = "draw"
    /\ args.show_as_percent
    /\ args.data = <<1, 2, 3>>
    /\ args.scale_by = ScaleNone
    /\ args.ylim = Lim(RInt(0), Rat(1, 2))
    /\ data = <<RInt(100), RInt(200), RInt(300)>>
    /\ ylim = Lim(RInt(0), RInt(50))

\* each value divided by its own divisor
OwnDivided ==
    [k \in 1..N |-> RDiv(Values[k], RInt(BAt(args.scale_by.vals, k)))]

\* C8 (as claimed): under a named policy and a positive scale factor, scalar
\* or one divisor per value, the scaled values are those obtained by dividing
\* each value by its own divisor and then reordering by the permutation.
\* (Stated for values without ties, where the permutation is unique.)
C8_ScaleCommutesWithReorder ==
    (/\ args.sort_by.kind = "str"
     /\ NoTies(args.data)
     /\ args.scale_by.kind # "none"
     /\ args.scale_by.kind = "seq" => Len(args.scale_by.vals) = N
     /\ pc = "percent") =>
        data = Index(OwnDivided, order)

\* C9 (as claimed): once laid out, the offsets are 0..N-1, one per value, and
\* the x limits are (-bar_width, N-1+bar_width); a call without labels is
\* laid out like any other.
C9_OffsetsAndLimits ==
    /\ pc \in {"percent", "draw", "maxline", "barlabels", "finish", "done"} =>
          offsets = Range0(Len(data))
    /\ pc = "done" =>
          /\ fig.xticks = Range0(Len(data))
          /\ fig.xlim = Lim(Rat(-3, 4), RAdd(RInt(Len(data) - 1), Rat(3, 4)))
    /\ (args.labels.ndim = 0 /\ pc = "raised") =>
          error.type \notin {"TypeError", "IndexError"}

\* C10 (as claimed): with show_bar_labels and a valid formatter the annotation
\* step completes, with or without scale_by, and writes for every bar i the
\* formatted value at (offset[i], value[i] + pad), pad being 0.05 with scale_by
\* and zero without.
C10_BarLabelsComplete ==
    (/\ args.show_bar_labels
     /\ check_parameter_bar_label_format(args.bar_label_format)
     /\ EqualLength) =>
        /\ ~(pc = "raised" /\ error.line = 175)
        /\ pc \in {"finish", "done"} =>
             /\ Len(fig.texts) = Len(data)
             /\ \A i \in 1..Len(data) :
                   /\ fig.texts[i].x = i - 1
                   /\ fig.texts[i].y =
                        RAdd(data[i], IF args.scale_by.kind # "none"
                                      THEN Rat(1, 20) ELSE RInt(0))
                   /\ fig.texts[i].s.arg = data[i]

====
